---- MODULE Spec2Model ----
(***************************************************************************)
(* Model of pallet_packer_app.py: the footprint orientation selector       *)
(* (calculate_cartons_per_layer), the pallet layering engine               *)
(* (pack_fba_group) and the per-shipment driver (pack_all).                *)
(*                                                                         *)
(* Dimensions and quantities are integers (the arithmetic of the source on *)
(* integer-valued numbers: // is floor division, math.ceil(a / b) is the   *)
(* ceiling of the quotient).                                               *)
(***************************************************************************)
EXTENDS Integers, Sequences, FiniteSets

\* ---- program constants (pallet_packer_app.py:7-9) ----
PALLET_LENGTH == 122
PALLET_WIDTH == 102
PALLET_HEIGHT == 194

\* ---- bounds of the model ----
MaxRows == 2
MaxQty == 3
MaxDim == 130

\* Shipment identifiers of the input table.
FBACodes == {1, 2}

\* Carton sizes <<Length, Width, Height>> the input rows are drawn from:
\*  <<100, 90, 100>>  both orientations give 1 per layer (tie), 1 layer per pallet
\*  <<100, 60, 90>>   width-first gives 2 per layer (length-first 1), 2 layers
\*  <<60, 100, 90>>   length-first gives 2 per layer, same volume as the previous
\*  <<130, 110, 50>>  fits the footprint in neither orientation
\*  <<50, 40, 250>>   taller than the pallet
CartonTypes ==
  { <<100, 90, 100>>, <<100, 60, 90>>, <<60, 100, 90>>,
    <<130, 110, 50>>, <<50, 40, 250>> }

VARIABLES
  df,                \* the validated input table handed to pack_all
  groups,            \* FBA codes pack_all has still to iterate over
  all_pallets,       \* pack_all's result list
  group_df,          \* pack_fba_group: the group, sorted by Volume
  remaining_cartons, \* the '# of Cartons' column of remaining_cartons
  pallets,           \* pack_fba_group's result list
  pallet_id,
  height_used,
  max_length_used,
  max_width_used,
  pallet_summary,
  idx,               \* position of the for loop over remaining_cartons
  pc,                \* control point
  iterations,        \* history: bodies of the while loop entered for this group
  pass_start_sum,    \* history: sum of '# of Cartons' when the pass started
  last_skip,         \* history: which `continue` the last skipped row took
  carton_L,          \* argument of a stand-alone calculate_cartons_per_layer call
  carton_W,
  cpl_result         \* its return value

vars ==
  << df, groups, all_pallets, group_df, remaining_cartons, pallets, pallet_id,
     height_used, max_length_used, max_width_used, pallet_summary, idx, pc,
     iterations, pass_start_sum, last_skip, carton_L, carton_W, cpl_result >>

packVars ==
  << df, groups, all_pallets, group_df, remaining_cartons, pallets, pallet_id,
     height_used, max_length_used, max_width_used, pallet_summary, idx, pc,
     iterations, pass_start_sum, last_skip >>

cplVars == << carton_L, carton_W, cpl_result >>

\* ---- arithmetic helpers ----
Min(a, b) == IF a <= b THEN a ELSE b

Max(a, b) == IF a >= b THEN a ELSE b

\* math.ceil(a / b) for a >= 0, b > 0
CeilDiv(a, b) == (a + b - 1) \div b

RECURSIVE SumSeq(_)
SumSeq(s) == IF s = << >> THEN 0 ELSE Head(s) + SumSeq(Tail(s))

RECURSIVE SelectRows(_, _, _)
\* rows of table t (from position i on) whose FBA code is c, in table order
SelectRows(t, c, i) ==
  IF i > Len(t) THEN << >>
  ELSE IF t[i].FBA = c
       THEN << [FBA |-> c, Cartons |-> t[i].Cartons, Length |-> t[i].Length,
                Width |-> t[i].Width, Height |-> t[i].Height, orig |-> i] >>
            \o SelectRows(t, c, i + 1)
       ELSE SelectRows(t, c, i + 1)

RECURSIVE SortedCodes(_)
\* the group keys in ascending order (groupby sorts its keys)
SortedCodes(S) ==
  IF S = {} THEN << >>
  ELSE LET m == CHOOSE x \in S : \A y \in S : x <= y
       IN << m >> \o SortedCodes(S \ {m})

\* ---- calculate_cartons_per_layer ----
\* one turn of the loop over orientations: keep the strictly greater total
\* variant: a tie replaces the orientation kept so far
TryOrientationTieTakesLater(best, l, w) ==
  LET count_L == PALLET_LENGTH \div l
      count_W == PALLET_WIDTH \div w
      total == count_L * count_W
  IN IF total >= best.count THEN [count |-> total, l |-> l, w |-> w] ELSE best

TryOrientation(best, l, w) ==
  LET count_L == PALLET_LENGTH \div l
      count_W == PALLET_WIDTH \div w
      total == count_L * count_W
  IN IF total > best.count THEN [count |-> total, l |-> l, w |-> w] ELSE best

calculate_cartons_per_layer(cL, cW) ==
  IF cL <= 0 \/ cW <= 0
  THEN [count |-> 0, l |-> 0, w |-> 0]
  ELSE TryOrientation(TryOrientation([count |-> 0, l |-> 0, w |-> 0], cL, cW),
                      cW, cL)

\* ---- pack_fba_group: the quantities of one row visit ----
Volume(r) == r.Length * r.Width * r.Height

\* variant: the height already used on the pallet is forgotten
MaxLayersOfEmptyPallet(hu, h) == PALLET_HEIGHT \div h

MaxLayers(hu, h) == (PALLET_HEIGHT - hu) \div h

\* variant: the row's remaining quantity does not cap what is packed
CartonsToPackUncapped(qty, cpl, hu, h) == cpl * MaxLayers(hu, h)

CartonsToPack(qty, cpl, hu, h) == Min(qty, cpl * MaxLayers(hu, h))

LayersUsed(ctp, cpl) == CeilDiv(ctp, cpl)

HeightAdd(ctp, cpl, h) == LayersUsed(ctp, cpl) * h

OverHeight(hu, ha) == hu + ha > PALLET_HEIGHT

RowsUsed(ctp, cpl, used_L) == CeilDiv(Min(ctp, cpl), PALLET_LENGTH \div used_L)

LengthOccupied(used_L) == Min(PALLET_LENGTH, (PALLET_LENGTH \div used_L) * used_L)

WidthOccupied(rows_used, used_W) == Min(PALLET_WIDTH, rows_used * used_W)

\* variant: the extents of the carton types on a pallet add up
NewMaxLengthUsedAdditive(mlu, length_occupied) == mlu + length_occupied

NewMaxLengthUsed(mlu, length_occupied) == Max(mlu, length_occupied)

NewMaxWidthUsed(mwu, width_occupied) == Max(mwu, width_occupied)

\* which `continue` of the for body the row at position i takes, or "pack"
RowOutcome(i, hu) ==
  LET row == group_df[i]
      qty == remaining_cartons[i]
      cpl == calculate_cartons_per_layer(row.Length, row.Width).count
  IN IF qty <= 0 THEN "empty"
     ELSE IF cpl = 0 THEN "no_fit"
     ELSE IF CartonsToPack(qty, cpl, hu, row.Height) = 0 THEN "no_room"
     ELSE IF OverHeight(hu, HeightAdd(CartonsToPack(qty, cpl, hu, row.Height),
                                      cpl, row.Height))
          THEN "over_height"
     ELSE "pack"

\* ---- sort_values(by='Volume', ascending=False) ----
\* The default kind is quicksort, which is not stable: any arrangement of the
\* group in non-increasing Volume is a possible result.
IndexPerms(n) ==
  { p \in [1..n -> 1..n] : \A i, j \in 1..n : i # j => p[i] # p[j] }

SortedByVolume(g) ==
  { [i \in 1..Len(g) |-> g[p[i]]] : p \in
      { q \in IndexPerms(Len(g)) :
          \A i \in 1..(Len(g) - 1) : Volume(g[q[i]]) >= Volume(g[q[i + 1]]) } }

\* ---- input tables ----
Rows ==
  { [FBA |-> c, Cartons |-> q, Length |-> t[1], Width |-> t[2], Height |-> t[3]] :
      c \in FBACodes, q \in 1..MaxQty, t \in CartonTypes }

Tables == UNION { [1..n -> Rows] : n \in 1..MaxRows }

EmptySummary ==
  [FBACode |-> 0, PalletNo |-> 0, PackedCartons |-> 0, Details |-> << >>,
   TotalHeightUsed |-> 0, TotalLengthUsed |-> 0, TotalWidthUsed |-> 0]

NoResult == [count |-> 0, l |-> 0, w |-> 0]

Init ==
  /\ df \in Tables
  /\ groups = SortedCodes({ df[i].FBA : i \in 1..Len(df) })
  /\ all_pallets = << >>
  /\ group_df = << >>
  /\ remaining_cartons = << >>
  /\ pallets = << >>
  /\ pallet_id = 1
  /\ height_used = 0
  /\ max_length_used = 0
  /\ max_width_used = 0
  /\ pallet_summary = EmptySummary
  /\ idx = 0
  /\ pc = "pack_all"
  /\ iterations = 0
  /\ pass_start_sum = 0
  /\ last_skip = "none"
  /\ carton_L = 0
  /\ carton_W = 0
  /\ cpl_result = NoResult

\* variant: pallet_id outlives the call (numbering runs on across groups)
EnterGroupKeepsPalletId ==
  /\ pc = "pack_all"
  /\ groups # << >>
  /\ \E g \in SortedByVolume(SelectRows(df, Head(groups), 1)) :
       /\ group_df' = g
       /\ remaining_cartons' = [i \in 1..Len(g) |-> g[i].Cartons]
  /\ groups' = Tail(groups)
  /\ pallets' = << >>
  /\ iterations' = 0
  /\ pass_start_sum' = 0
  /\ last_skip' = "none"
  /\ pc' = "while"
  /\ UNCHANGED << df, all_pallets, height_used, max_length_used, max_width_used,
                  pallet_summary, idx, pallet_id >>
  /\ UNCHANGED cplVars

\* pack_all: next group of the groupby; pack_fba_group's preamble (sort, copy)
EnterGroup ==
  /\ pc = "pack_all"
  /\ groups # << >>
  /\ \E g \in SortedByVolume(SelectRows(df, Head(groups), 1)) :
       /\ group_df' = g
       /\ remaining_cartons' = [i \in 1..Len(g) |-> g[i].Cartons]
  /\ groups' = Tail(groups)
  /\ pallets' = << >>
  /\ pallet_id' = 1
  /\ iterations' = 0
  /\ pass_start_sum' = 0
  /\ last_skip' = "none"
  /\ pc' = "while"
  /\ UNCHANGED << df, all_pallets, height_used, max_length_used, max_width_used,
                  pallet_summary, idx >>
  /\ UNCHANGED cplVars

\* while remaining_cartons['# of Cartons'].sum() > 0: start a pallet
StartPallet ==
  /\ pc = "while"
  /\ SumSeq(remaining_cartons) > 0
  /\ height_used' = 0
  /\ max_length_used' = 0
  /\ max_width_used' = 0
  /\ pallet_summary' =
       [FBACode |-> group_df[1].FBA, PalletNo |-> pallet_id, PackedCartons |-> 0,
        Details |-> << >>, TotalHeightUsed |-> 0, TotalLengthUsed |-> 0,
        TotalWidthUsed |-> 0]
  /\ idx' = 1
  /\ iterations' = iterations + 1
  /\ pass_start_sum' = SumSeq(remaining_cartons)
  /\ pc' = "for"
  /\ UNCHANGED << df, groups, all_pallets, group_df, remaining_cartons, pallets,
                  pallet_id, last_skip >>
  /\ UNCHANGED cplVars

\* the while condition is false: fall through to `return pallets`
LoopExit ==
  /\ pc = "while"
  /\ SumSeq(remaining_cartons) = 0
  /\ pc' = "return"
  /\ UNCHANGED << df, groups, all_pallets, group_df, remaining_cartons, pallets,
                  pallet_id, height_used, max_length_used, max_width_used,
                  pallet_summary, idx, iterations, pass_start_sum, last_skip >>
  /\ UNCHANGED cplVars

\* variant: a row that cannot be packed ends the for loop (break for continue)
SkipRowBreaks ==
  /\ pc = "for"
  /\ idx <= Len(group_df)
  /\ RowOutcome(idx, height_used) # "pack"
  /\ last_skip' = RowOutcome(idx, height_used)
  /\ idx' = IF RowOutcome(idx, height_used) = "empty" THEN idx + 1
            ELSE Len(group_df) + 1
  /\ UNCHANGED << df, groups, all_pallets, group_df, remaining_cartons, pallets,
                  pallet_id, height_used, max_length_used, max_width_used,
                  pallet_summary, iterations, pass_start_sum, pc >>
  /\ UNCHANGED cplVars

\* one turn of the for loop that ends in a `continue`
SkipRow ==
  /\ pc = "for"
  /\ idx <= Len(group_df)
  /\ RowOutcome(idx, height_used) # "pack"
  /\ last_skip' = RowOutcome(idx, height_used)
  /\ idx' = idx + 1
  /\ UNCHANGED << df, groups, all_pallets, group_df, remaining_cartons, pallets,
                  pallet_id, height_used, max_length_used, max_width_used,
                  pallet_summary, iterations, pass_start_sum, pc >>
  /\ UNCHANGED cplVars

\* one turn of the for loop that packs cartons of the row
PackRow ==
  /\ pc = "for"
  /\ idx <= Len(group_df)
  /\ RowOutcome(idx, height_used) = "pack"
  /\ LET row == group_df[idx]
         best == calculate_cartons_per_layer(row.Length, row.Width)
         cartons_per_layer == best.count
         cartons_to_pack ==
           CartonsToPack(remaining_cartons[idx], cartons_per_layer, height_used,
                         row.Height)
         height_add == HeightAdd(cartons_to_pack, cartons_per_layer, row.Height)
         rows_used == RowsUsed(cartons_to_pack, cartons_per_layer, best.l)
     IN /\ remaining_cartons' =
             [remaining_cartons EXCEPT ![idx] = @ - cartons_to_pack]
        /\ height_used' = height_used + height_add
        /\ max_length_used' =
             NewMaxLengthUsed(max_length_used, LengthOccupied(best.l))
        /\ max_width_used' =
             NewMaxWidthUsed(max_width_used, WidthOccupied(rows_used, best.w))
        /\ pallet_summary' =
             [pallet_summary EXCEPT
                !.PackedCartons = @ + cartons_to_pack,
                !.Details = Append(@, [Size |-> << row.Length, row.Width, row.Height >>,
                                       Packed |-> cartons_to_pack])]
  /\ idx' = idx + 1
  /\ UNCHANGED << df, groups, all_pallets, group_df, pallets, pallet_id,
                  iterations, pass_start_sum, last_skip, pc >>
  /\ UNCHANGED cplVars

\* variant: the loop is left after the first pallet, empty or not
EndPassAlwaysBreak(packed) ==
  IF packed > 0
  THEN /\ pallets' =
            Append(pallets,
                   [pallet_summary EXCEPT !.TotalHeightUsed = height_used,
                                          !.TotalLengthUsed = max_length_used,
                                          !.TotalWidthUsed = max_width_used])
       /\ pallet_id' = pallet_id + 1
       /\ pc' = "return"
  ELSE /\ pc' = "return"
       /\ UNCHANGED << pallets, pallet_id >>

\* variant: an empty pallet does not stop the loop
EndPassNeverBreak(packed) ==
  IF packed > 0
  THEN /\ pallets' =
            Append(pallets,
                   [pallet_summary EXCEPT !.TotalHeightUsed = height_used,
                                          !.TotalLengthUsed = max_length_used,
                                          !.TotalWidthUsed = max_width_used])
       /\ pallet_id' = pallet_id + 1
       /\ pc' = "while"
  ELSE /\ pc' = "while"
       /\ UNCHANGED << pallets, pallet_id >>

\* after the for loop: keep the pallet, or break on an empty one
EndPass(packed) ==
  IF packed > 0
  THEN /\ pallets' =
            Append(pallets,
                   [pallet_summary EXCEPT !.TotalHeightUsed = height_used,
                                          !.TotalLengthUsed = max_length_used,
                                          !.TotalWidthUsed = max_width_used])
       /\ pallet_id' = pallet_id + 1
       /\ pc' = "while"
  ELSE /\ pc' = "return"
       /\ UNCHANGED << pallets, pallet_id >>

FinishPallet ==
  /\ pc = "for"
  /\ idx > Len(group_df)
  /\ EndPass(pallet_summary.PackedCartons)
  /\ UNCHANGED << df, groups, all_pallets, group_df, remaining_cartons,
                  height_used, max_length_used, max_width_used, pallet_summary,
                  idx, iterations, pass_start_sum, last_skip >>
  /\ UNCHANGED cplVars

\* return pallets; pack_all extends all_pallets
ReturnGroup ==
  /\ pc = "return"
  /\ all_pallets' = all_pallets \o pallets
  /\ pc' = IF groups = << >> THEN "done" ELSE "pack_all"
  /\ UNCHANGED << df, groups, group_df, remaining_cartons, pallets, pallet_id,
                  height_used, max_length_used, max_width_used, pallet_summary,
                  idx, iterations, pass_start_sum, last_skip >>
  /\ UNCHANGED cplVars

Next ==
  \/ EnterGroup
  \/ StartPallet
  \/ LoopExit
  \/ SkipRow
  \/ PackRow
  \/ FinishPallet
  \/ ReturnGroup

Spec == Init /\ [][Next]_vars

\* ---- a stand-alone call of calculate_cartons_per_layer ----
InitOrient ==
  /\ carton_L \in 0..MaxDim
  /\ carton_W \in 0..MaxDim
  /\ cpl_result = NoResult
  /\ pc = "cpl_call"
  /\ df = << >>
  /\ groups = << >>
  /\ all_pallets = << >>
  /\ group_df = << >>
  /\ remaining_cartons = << >>
  /\ pallets = << >>
  /\ pallet_id = 1
  /\ height_used = 0
  /\ max_length_used = 0
  /\ max_width_used = 0
  /\ pallet_summary = EmptySummary
  /\ idx = 0
  /\ iterations = 0
  /\ pass_start_sum = 0
  /\ last_skip = "none"

CallCartonsPerLayer ==
  /\ pc = "cpl_call"
  /\ cpl_result' = calculate_cartons_per_layer(carton_L, carton_W)
  /\ pc' = "cpl_done"
  /\ UNCHANGED << carton_L, carton_W, df, groups, all_pallets, group_df,
                  remaining_cartons, pallets, pallet_id, height_used,
                  max_length_used, max_width_used, pallet_summary, idx,
                  iterations, pass_start_sum, last_skip >>

NextOrient == CallCartonsPerLayer

SpecOrient == InitOrient /\ [][NextOrient]_vars

\* ---- vocabulary of the properties ----
InGroup == pc \in {"while", "for", "return"}

\* the two orientations' per-layer counts, as the specification states them
LengthFirst(L, W) == (122 \div L) * (102 \div W)

WidthFirst(L, W) == (122 \div W) * (102 \div L)

BestCount(L, W) ==
  IF LengthFirst(L, W) >= WidthFirst(L, W) THEN LengthFirst(L, W)
  ELSE WidthFirst(L, W)

Placeable(r) == BestCount(r.Length, r.Width) >= 1 /\ r.Height <= 194

InitialTotal == SumSeq([i \in 1..Len(group_df) |-> group_df[i].Cartons])

PackedTotal(ps) == SumSeq([k \in 1..Len(ps) |-> ps[k].PackedCartons])

DetailsTotal(p) == SumSeq([k \in 1..Len(p.Details) |-> p.Details[k].Packed])

SizeOf(r) == << r.Length, r.Width, r.Height >>

\* ---- C5 ----
\* C5: for positive (L, W), calculate_cartons_per_layer returns the greater of
\* the two orientations' counts, never less than either; the returned dims are
\* (W, L) only when the width-first count is strictly greater, and (L, W) when
\* the counts tie at a non-zero value; L=50, W=40 returns 6 with dims (40, 50).
C5_OrientationSelection ==
  (pc = "cpl_done" /\ carton_L > 0 /\ carton_W > 0) =>
    LET lf == LengthFirst(carton_L, carton_W)
        wf == WidthFirst(carton_L, carton_W)
    IN /\ cpl_result.count = BestCount(carton_L, carton_W)
       /\ cpl_result.count >= lf
       /\ cpl_result.count >= wf
       /\ (carton_L # carton_W /\ << cpl_result.l, cpl_result.w >> = << carton_W, carton_L >>)
            => wf > lf
       /\ wf > lf => << cpl_result.l, cpl_result.w >> = << carton_W, carton_L >>
       /\ (lf = wf /\ lf > 0)
            => << cpl_result.l, cpl_result.w >> = << carton_L, carton_W >>
       /\ (carton_L = 50 /\ carton_W = 40)
            => cpl_result = [count |-> 6, l |-> 40, w |-> 50]

\* a tie at a non-zero count between two different orientations, resolved
C5_Witness ==
  /\ pc = "cpl_done"
  /\ carton_L = 100
  /\ carton_W = 90
  /\ LengthFirst(carton_L, carton_W) = WidthFirst(carton_L, carton_W)
  /\ cpl_result = [count |-> 1, l |-> 100, w |-> 90]

\* ---- C1 ----
\* C1: when pack_fba_group returns, the cartons packed on the returned pallets
\* are at most the group's initial cartons, and exactly as many when every row
\* of the group is individually placeable.
C1_Conservation ==
  pc = "return" =>
    /\ PackedTotal(pallets) <= InitialTotal
    /\ (\A i \in 1..Len(group_df) : Placeable(group_df[i]))
         => PackedTotal(pallets) = InitialTotal

\* a group of two placeable rows that needed more than one pallet, returned
C1_Witness ==
  /\ pc = "return"
  /\ Len(group_df) = 2
  /\ \A i \in 1..Len(group_df) : Placeable(group_df[i])
  /\ Len(pallets) >= 2
  /\ PackedTotal(pallets) = InitialTotal

\* ---- C2 ----
\* C2: every pallet summary in the result has Total Height Used <= 194, Total
\* Length Used <= 122 and Total Width Used <= 102, and the running height_used
\* never exceeds 194.
C2_ExtentBounds ==
  /\ height_used <= 194
  /\ \A ps \in {pallets, all_pallets} : \A k \in 1..Len(ps) :
       /\ ps[k].TotalHeightUsed <= 194
       /\ ps[k].TotalLengthUsed <= 122
       /\ ps[k].TotalWidthUsed <= 102

\* a returned pallet carrying two carton types whose layers nearly fill it
C2_Witness ==
  /\ pallets # << >>
  /\ Len(pallets[1].Details) = 2
  /\ pallets[1].TotalHeightUsed = 190
  /\ pallets[1].TotalLengthUsed = 120
  /\ pallets[1].TotalWidthUsed = 100

\* ---- C3 ----
\* C3: the while loop of pack_fba_group runs at most as many iterations as the
\* group has cartons initially; every iteration that returns to the loop test
\* has strictly decreased the total remaining quantity and emitted a pallet;
\* the first pass that packs nothing leaves the loop in that same pass.
C3_Termination ==
  InGroup =>
    /\ iterations <= InitialTotal
    /\ pc = "while" =>
         /\ Len(pallets) = iterations
         /\ iterations > 0 =>
              /\ SumSeq(remaining_cartons) < pass_start_sum
              /\ pallet_summary.PackedCartons > 0
    /\ pc = "for" => Len(pallets) = iterations - 1
    /\ pc = "return" =>
         \/ SumSeq(remaining_cartons) = 0 /\ Len(pallets) = iterations
         \/ /\ SumSeq(remaining_cartons) > 0
            /\ pallet_summary.PackedCartons = 0
            /\ Len(pallets) = iterations - 1

\* the loop left by the empty-pallet break after two pallets, with an
\* unplaceable remainder still above zero
C3_Witness ==
  /\ pc = "return"
  /\ SumSeq(remaining_cartons) > 0
  /\ iterations = 3
  /\ Len(pallets) = 2
  /\ pallet_summary.PackedCartons = 0

\* ---- C4 ----
\* C4: a row that can never be placed appears in no pallet's Details and keeps
\* its quantity, and every placeable row of the same group ends with remaining
\* quantity 0, wherever the unplaceable row falls in the sorted order.
C4_UnplaceableDoesNotBlock ==
  InGroup =>
    \A i \in 1..Len(group_df) :
      /\ ~Placeable(group_df[i]) =>
           /\ remaining_cartons[i] = group_df[i].Cartons
           /\ \A k \in 1..Len(pallets) : \A d \in 1..Len(pallets[k].Details) :
                pallets[k].Details[d].Size # SizeOf(group_df[i])
           /\ pc = "for" => \A d \in 1..Len(pallet_summary.Details) :
                pallet_summary.Details[d].Size # SizeOf(group_df[i])
      /\ (pc = "return" /\ Placeable(group_df[i])) => remaining_cartons[i] = 0

\* an unplaceable row sorted before a placeable one, which was packed all the same
C4_Witness ==
  /\ pc = "return"
  /\ Len(group_df) = 2
  /\ ~Placeable(group_df[1])
  /\ Placeable(group_df[2])
  /\ remaining_cartons[1] = group_df[1].Cartons
  /\ remaining_cartons[2] = 0
  /\ PackedTotal(pallets) = group_df[2].Cartons

\* ---- C8 ----
\* C8: every row's remaining quantity is between 0 and its initial value; a
\* step only ever decreases it, by exactly the count recorded for that row on
\* the current pallet; a row at 0 is never packed or changed again.
C8_QuantityStep ==
  \A i \in 1..Len(group_df) :
    /\ 0 <= remaining_cartons[i]
    /\ remaining_cartons[i] <= group_df[i].Cartons
    /\ 0 <= remaining_cartons'[i]
    /\ remaining_cartons'[i] <= remaining_cartons[i]
    /\ remaining_cartons'[i] # remaining_cartons[i] =>
         /\ i = idx
         /\ pallet_summary'.Details =
              Append(pallet_summary.Details,
                     [Size |-> SizeOf(group_df[i]),
                      Packed |-> remaining_cartons[i] - remaining_cartons'[i]])
         /\ pallet_summary'.PackedCartons =
              pallet_summary.PackedCartons
                + (remaining_cartons[i] - remaining_cartons'[i])
    /\ (i = idx /\ remaining_cartons[i] = 0) => pallet_summary' = pallet_summary

C8_GroupStep == (pc \in {"while", "for"}) => C8_QuantityStep

C8_QuantityInvariant == [][C8_GroupStep]_vars

\* on a second pallet: one row drained to 0, the other partly packed
C8_Witness ==
  /\ pc = "for"
  /\ Len(pallets) >= 1
  /\ Len(group_df) = 2
  /\ remaining_cartons[1] = 0
  /\ remaining_cartons[2] > 0
  /\ remaining_cartons[2] < group_df[2].Cartons
  /\ idx = 2

\* ---- C9 ----
\* C9: the pallets returned for a group are numbered 1, 2, ..., k in output
\* order, the numbering restarts at 1 for each group of pack_all, and every
\* returned pallet has Packed Cartons >= 1, equal to the sum of the Packed
\* counts of its Details.
C9_PalletNumbering ==
  /\ InGroup => \A k \in 1..Len(pallets) : pallets[k].PalletNo = k
  /\ \A k \in 1..Len(all_pallets) :
       all_pallets[k].PalletNo =
         1 + Cardinality({ j \in 1..(k - 1) :
                             all_pallets[j].FBACode = all_pallets[k].FBACode })
  /\ \A ps \in {pallets, all_pallets} : \A k \in 1..Len(ps) :
       /\ ps[k].PackedCartons >= 1
       /\ ps[k].PackedCartons = DetailsTotal(ps[k])

\* pack_all finished with two groups, the first of which filled two pallets
C9_Witness ==
  /\ pc = "done"
  /\ Len(all_pallets) = 3
  /\ all_pallets[1].FBACode = 1 /\ all_pallets[1].PalletNo = 1
  /\ all_pallets[2].FBACode = 1 /\ all_pallets[2].PalletNo = 2
  /\ all_pallets[3].FBACode = 2 /\ all_pallets[3].PalletNo = 1

\* ---- C10 ----
\* C10: the over-height guard is never the reason a row is skipped; a row with
\* remaining quantity > 0, per-layer count >= 1 and height within the height left
\* on the pallet is committed with exactly min(quantity, per-layer count *
\* floor((194 - height_used) / height)) cartons; a fresh pallet accepts the first
\* placeable row that has quantity left.
C10_RowStep ==
  LET row == group_df[idx]
      qty == remaining_cartons[idx]
      cpl == BestCount(row.Length, row.Width)
      room == (194 - height_used) \div row.Height
      want == IF qty <= cpl * room THEN qty ELSE cpl * room
  IN /\ last_skip' # "over_height"
     /\ (qty > 0 /\ cpl >= 1 /\ row.Height <= 194 - height_used) =>
          /\ want >= 1
          /\ remaining_cartons'[idx] = qty - want
          /\ pallet_summary'.PackedCartons = pallet_summary.PackedCartons + want
     /\ (height_used = 0 /\ qty > 0 /\ Placeable(row)) =>
          remaining_cartons'[idx] < qty

C10_ForStep == (pc = "for" /\ idx <= Len(group_df)) => C10_RowStep

C10_GuardNeverFires == [][C10_ForStep]_vars

\* a second carton type committed on a partly filled pallet, capped by the
\* height that is left (3 wanted, one layer of 2 fits)
C10_Witness ==
  /\ pc = "for"
  /\ idx = 3
  /\ Len(group_df) = 2
  /\ height_used = 190
  /\ Len(pallet_summary.Details) = 2
  /\ pallet_summary.Details[2].Packed = 2
  /\ remaining_cartons[2] = 1

\* ---- C7 ----
\* C7: every pass visits the group's rows in descending order of volume, rows
\* of equal volume in their original input order.
C7_StableVolumeOrder ==
  pc = "for" =>
    \A i, j \in 1..Len(group_df) :
      i < j =>
        \/ Volume(group_df[i]) > Volume(group_df[j])
        \/ /\ Volume(group_df[i]) = Volume(group_df[j])
           /\ group_df[i].orig < group_df[j].orig

====
